---- MODULE Spec2Model ----
(***************************************************************************)
(* GitSync: the synchronization engine (SyncService) over the GitHub       *)
(* client (GitHubAPI).  One SyncService instance, its busy flag, its       *)
(* settings and client, the local vault and the remote repository.  Every  *)
(* await of the source is a step: a remote request or a file-store call    *)
(* answers (successfully or not) and the code runs on to the next await.   *)
(***************************************************************************)
EXTENDS Integers, Sequences, FiniteSets, TLC

\* ---------------------------------------------------------------- bounds
MaxCalls == 2        \* invocations of push / pull / sync
MaxUpdates == 1      \* settings replacements
MaxBytes == 3        \* length of a binary file's content
MaxTemplate == 3     \* length of a commit-message template, in tokens

\* ------------------------------------------------------------- constants
InlineThreshold == 100000

\* A nullable value is a sequence of length 0 (null) or 1.
Null == <<>>
Some(x) == <<x>>
Absent == "absent"

\* ------------------------------------------------------------------ text
\* Strings are sequences of tokens: one token per character, and one token
\* for each placeholder ({{configDir}}, {{date}}).
ConfigDirToken == "{{configDir}}"
DateToken == "{{date}}"
ConfigDir == <<"o">>
DateStr == <<"now">>

StartsWith(s, pre) ==
  /\ Len(pre) <= Len(s)
  /\ SubSeq(s, 1, Len(pre)) = pre

EndsWith(s, suf) ==
  /\ Len(suf) <= Len(s)
  /\ SubSeq(s, Len(s) - Len(suf) + 1, Len(s)) = suf

\* String.prototype.replace with a string pattern: the first occurrence only.
ReplaceFirst(s, tok, rep) ==
  IF \E i \in 1..Len(s) : s[i] = tok
  THEN LET i == CHOOSE j \in 1..Len(s) :
                   /\ s[j] = tok
                   /\ \A k \in 1..(j - 1) : s[k] # tok
       IN SubSeq(s, 1, i - 1) \o rep \o SubSeq(s, i + 1, Len(s))
  ELSE s

ResolveConfigDir(path) == ReplaceFirst(path, ConfigDirToken, ConfigDir)

\* TFile.name: the part of the path after the last "/".
FileName(path) ==
  IF \E i \in 1..Len(path) : path[i] = "/"
  THEN LET i == CHOOSE j \in 1..Len(path) :
                   /\ path[j] = "/"
                   /\ \A k \in (j + 1)..Len(path) : path[k] # "/"
       IN SubSeq(path, i + 1, Len(path))
  ELSE path

\* normalizePath: no leading, trailing or repeated "/"
RECURSIVE NormalizeFrom(_, _)
NormalizeFrom(path, i) ==
  IF i > Len(path) THEN <<>>
  ELSE IF path[i] = "/" /\ (i = 1 \/ path[i - 1] = "/" \/ \A k \in i..Len(path) : path[k] = "/")
  THEN NormalizeFrom(path, i + 1)
  ELSE <<path[i]>> \o NormalizeFrom(path, i + 1)

NormalizePath(path) == NormalizeFrom(path, 1)

\* ---------------------------------------------------------------- base64
\* A string is also written as the sequence of its character codes, and a
\* file's bytes as a sequence of numbers 0..255.
Whitespace == {9, 10, 12, 13, 32}

\* the base64 alphabet: A-Z a-z 0-9 + /
B64Char(n) ==
  IF n < 26 THEN 65 + n
  ELSE IF n < 52 THEN 97 + (n - 26)
  ELSE IF n < 62 THEN 48 + (n - 52)
  ELSE IF n = 62 THEN 43 ELSE 47

\* the value of a character of the alphabet; -1 for any other character
B64Value(c) ==
  IF c >= 65 /\ c <= 90 THEN c - 65
  ELSE IF c >= 97 /\ c <= 122 THEN c - 97 + 26
  ELSE IF c >= 48 /\ c <= 57 THEN c - 48 + 52
  ELSE IF c = 43 THEN 62
  ELSE IF c = 47 THEN 63 ELSE -1

\* btoa: three bytes to four characters, padded with "="
RECURSIVE BtoaFrom(_, _)
BtoaFrom(b, i) ==
  IF i > Len(b) THEN <<>>
  ELSE LET rem == Len(b) - i + 1
           b2 == IF rem >= 2 THEN b[i + 1] ELSE 0
           b3 == IF rem >= 3 THEN b[i + 2] ELSE 0
           n == b[i] * 65536 + b2 * 256 + b3
       IN <<B64Char(n \div 262144), B64Char((n \div 4096) % 64),
            IF rem >= 2 THEN B64Char((n \div 64) % 64) ELSE 61,
            IF rem >= 3 THEN B64Char(n % 64) ELSE 61>>
          \o BtoaFrom(b, i + 3)

Btoa(b) == BtoaFrom(b, 1)

\* s without the characters that satisfy Drop
RECURSIVE Without(_, _, _)
Without(s, drop, i) ==
  IF i > Len(s) THEN <<>>
  ELSE (IF s[i] \in drop THEN <<>> ELSE <<s[i]>>) \o Without(s, drop, i + 1)

\* the bytes of the groups of base64 values from position i
RECURSIVE AtobFrom(_, _)
AtobFrom(v, i) ==
  LET rem == Len(v) - i + 1
  IN IF rem <= 0 THEN <<>>
     ELSE IF rem >= 4
     THEN LET n == v[i] * 262144 + v[i + 1] * 4096 + v[i + 2] * 64 + v[i + 3]
          IN <<n \div 65536, (n \div 256) % 256, n % 256>> \o AtobFrom(v, i + 4)
     ELSE IF rem = 3
     THEN LET n == v[i] * 4096 + v[i + 1] * 64 + v[i + 2]
          IN <<n \div 1024, (n \div 4) % 256>>
     ELSE <<(v[i] * 64 + v[i + 1]) \div 16>>

\* atob (forgiving base64 decode): whitespace is dropped, one or two "=" are
\* removed from a length that is a multiple of four, and the call throws
\* (null here) on a length of 4k+1 or a character outside the alphabet
Atob(s) ==
  LET t == Without(s, Whitespace, 1)
      n == Len(t)
      u == IF n > 0 /\ n % 4 = 0 /\ t[n] = 61
           THEN IF t[n - 1] = 61 THEN SubSeq(t, 1, n - 2) ELSE SubSeq(t, 1, n - 1)
           ELSE t
  IN IF Len(u) % 4 = 1 \/ \E k \in 1..Len(u) : B64Value(u[k]) = -1
     THEN Null
     ELSE Some(AtobFrom([k \in 1..Len(u) |-> B64Value(u[k])], 1))

\* TextEncoder.encode, for code points below 2048
RECURSIVE TextEncode(_)
TextEncode(s) ==
  IF s = <<>> THEN <<>>
  ELSE (IF Head(s) < 128 THEN <<Head(s)>>
        ELSE <<192 + (Head(s) \div 64), 128 + (Head(s) % 64)>>) \o TextEncode(Tail(s))

\* TextDecoder.decode: U+FFFD for a byte that starts no valid sequence
RECURSIVE TextDecode(_)
TextDecode(b) ==
  IF b = <<>> THEN <<>>
  ELSE IF Head(b) < 128 THEN <<Head(b)>> \o TextDecode(Tail(b))
  ELSE IF /\ Head(b) >= 194 /\ Head(b) <= 223 /\ Len(b) >= 2
          /\ b[2] >= 128 /\ b[2] <= 191
  THEN <<(Head(b) - 192) * 64 + (b[2] - 128)>> \o TextDecode(Tail(Tail(b)))
  ELSE <<65533>> \o TextDecode(Tail(b))

\* ----------------------------------------------------------------- files
NotePath == <<"n">>
PluginPath == <<"o", "/", "p">>
DsPath == <<"d">>
ReadmePath == <<"R">>
Paths == {NotePath, PluginPath, DsPath, ReadmePath}

\* The order in which the vault and the remote tree list their files.
PathOrder == <<DsPath, NotePath, PluginPath, ReadmePath>>

\* A content is named, and has a length: "edge" is one character short of
\* the inline threshold, "big" is at it, "huge" is one character over.
Contents == {"v1", "v2", "edge", "big", "huge", "readme"}
ContentLength(c) ==
  IF c = "edge" THEN InlineThreshold - 1
  ELSE IF c = "big" THEN InlineThreshold
  ELSE IF c = "huge" THEN InlineThreshold + 1
  ELSE 2

\* The paths of PathOrder that are in set S, in order.
RECURSIVE Listing(_, _)
Listing(S, i) ==
  IF i > Len(PathOrder) THEN <<>>
  ELSE (IF PathOrder[i] \in S THEN <<PathOrder[i]>> ELSE <<>>) \o Listing(S, i + 1)

PresentPaths(f) == {p \in Paths : f[p] # Absent}
EmptyTree == [p \in Paths |-> Absent]

\* -------------------------------------------------------------- settings
Configured1 ==
  [githubUsername |-> "u", githubToken |-> "t1", repositoryName |-> "r",
   branch |-> "main",
   excludedFolders |-> {<<ConfigDirToken>>},
   excludedFiles |-> {<<"d">>},
   commitMessage |-> <<"s", DateToken>>]

Configured2 ==
  [githubUsername |-> "u", githubToken |-> "t2", repositoryName |-> "r",
   branch |-> "main",
   excludedFolders |-> {},
   excludedFiles |-> {},
   commitMessage |-> <<DateToken>>]

Unconfigured == [Configured1 EXCEPT !.githubToken = ""]

SettingsChoices == {Configured1, Configured2, Unconfigured}

\* new GitHubAPI(username, token, repo, branch), or null
InitializeAPI(s) ==
  IF s.githubUsername # "" /\ s.githubToken # "" /\ s.repositoryName # ""
  THEN Some([username |-> s.githubUsername, token |-> s.githubToken,
             repo |-> s.repositoryName, branch |-> s.branch])
  ELSE Null

\* getVaultFiles: the filter's verdict on one local file
VaultFileExcluded(s, path) ==
  \/ \E folder \in s.excludedFolders : StartsWith(path, ResolveConfigDir(folder))
  \/ \E ex \in s.excludedFiles : FileName(path) = ex \/ EndsWith(path, ex)

\* pull: shouldSkip for one remote path
PullShouldSkip(s, path) ==
  \/ \E folder \in s.excludedFolders : StartsWith(path, ResolveConfigDir(folder))
  \/ \E ex \in s.excludedFiles : EndsWith(path, ex)

\* sync: shouldSkip for one remote path (folders only)
SyncShouldSkip(s, path) ==
  \E folder \in s.excludedFolders : StartsWith(path, ResolveConfigDir(folder))

GetCommitMessage(s) == ReplaceFirst(s.commitMessage, DateToken, DateStr)

\* ----------------------------------------------------------------- state
VARIABLES
  settings,    \* SyncService.settings
  api,         \* SyncService.api: null or the GitHubAPI client
  isSyncing,   \* SyncService.isSyncing
  vault,       \* the local vault: path -> content or Absent
  remote,      \* the GitHub repository: [repo, head]
  ops,         \* the invocations of push / pull / sync, by call number
  updates      \* settings replacements so far

vars == <<settings, api, isSyncing, vault, remote, ops, updates>>

Calls == 1..MaxCalls
Kinds == {"push", "pull", "sync"}

\* ---------------------------------------------------------------- remote
\* Objects are content-addressed: an id is the object itself.
InitialCommit ==
  [tree |-> [EmptyTree EXCEPT ![ReadmePath] = "readme"],
   parents |-> <<>>,
   message |-> <<"init">>]

HeadTree(r) == IF r.head = Null THEN EmptyTree ELSE r.head[1].tree

\* GitHubTreeItem: inline content, or the id of a blob created before
InlineItem(f) ==
  [path |-> f.path, mode |-> "100644", type |-> "blob",
   content |-> Some(f.content), sha |-> Null]

BlobItem(f, blobSha) ==
  [path |-> f.path, mode |-> "100644", type |-> "blob",
   content |-> Null, sha |-> Some(blobSha)]

\* the blob a tree entry stands for (a blob's id is its content)
ItemBlob(item) == IF item.sha # Null THEN item.sha[1] ELSE item.content[1]

\* POST /git/trees: the entries laid over the base tree (or over nothing)
RECURSIVE ApplyItems(_, _, _)
ApplyItems(tree, items, i) ==
  IF i > Len(items) THEN tree
  ELSE ApplyItems([tree EXCEPT ![items[i].path] = ItemBlob(items[i])], items, i + 1)

\* (a tree request that drops the entries and answers the base tree)
CreateTreeBaseOnly(baseTreeSha, items) ==
  IF baseTreeSha = Null THEN EmptyTree ELSE baseTreeSha[1]

CreateTree(baseTreeSha, items) ==
  ApplyItems(IF baseTreeSha = Null THEN EmptyTree ELSE baseTreeSha[1], items, 1)

\* POST /git/commits: parents only when parentSha is not null
CreateCommit(message, treeSha, parentSha) ==
  [tree |-> treeSha,
   parents |-> IF parentSha = Null THEN <<>> ELSE <<parentSha[1]>>,
   message |-> message]

\* --------------------------------------------------------------- results
NotConfiguredMsg == "GitHub not configured"
BusyMsg == "Sync already in progress"
RepoMsg == "Could not access or create repository"
PushFailedMsg == "Failed to push files to GitHub"
UploadFailedMsg == "Failed to upload files"
ApiErrorMsg == "GitHub API Error"
TypeErrorMsg == "Cannot read properties of null"
UnknownMsg == "Unknown error"

\* What a failing file-store call throws: an Error, or some other value.
VaultErrors == {[isError |-> TRUE, message |-> "vault error"],
                [isError |-> FALSE, message |-> ""]}

ErrorMessage(err) == IF err.isError THEN err.message ELSE UnknownMsg

Result(ok, msg, up, down) ==
  [success |-> ok, message |-> msg,
   filesUploaded |-> up, filesDownloaded |-> down, filesDeleted |-> 0]

\* (a catch block that reports the counters reached before the throw)
FailureResultPartial(msg, up, down) == Result(FALSE, msg, up, down)

\* the catch blocks' Result; up and down are the counters at the throw
FailureResult(msg, up, down) == Result(FALSE, msg, 0, 0)

\* ------------------------------------------------------------ invocation
IdleOp ==
  [kind |-> "none", pc |-> "idle",
   client |-> Null,          \* the GitHubAPI object whose method is running
   vaultFiles |-> <<>>, remoteFiles |-> <<>>, idx |-> 0,
   filesToUpload |-> <<>>, filesUploaded |-> 0, filesDownloaded |-> 0,
   message |-> <<>>,
   commitSha |-> Null, treeSha |-> Null, baseTreeSha |-> Null,
   treeItems |-> <<>>, newTreeSha |-> Null, newCommitSha |-> Null,
   path |-> Null, sha |-> Null,   \* deleteFile's path and the id it found
   content |-> Null,         \* the content api.getFileContent returned
   results |-> <<>>,         \* the values returned to the caller
   thrown |-> FALSE,         \* an error left the call
   \* history, for stating properties:
   start |-> Null,           \* settings, client, vault, repository at entry
   used |-> Null,            \* rules, template, client last read by a step
   buHead |-> Null,          \* the branch head when batchUpload was called
   net |-> FALSE,            \* issued a remote request
   requests |-> {},          \* the requests that were answered
   batches |-> 0,            \* batchUpload calls
   batchOk |-> Null,         \* what the last batchUpload returned
   up |-> {},                \* paths handed to batchUpload
   down |-> {},              \* paths written to the vault
   unread |-> {},            \* remote paths whose content could not be fetched
   lost |-> Null,            \* the head a ref update replaced without building on it
   writes |-> <<>>]          \* batchUpload's write requests, in order, as answered

InFlight(op) == op.pc \notin {"idle", "done"}

\* return: the call ends with a Result; its locals are gone.
Return(op, r) ==
  [IdleOp EXCEPT !.kind = op.kind, !.pc = "done",
                 !.results = Append(op.results, r),
                 !.net = op.net, !.requests = op.requests,
                 !.batches = op.batches, !.batchOk = op.batchOk,
                 !.up = op.up, !.down = op.down, !.unread = op.unread,
                 !.lost = op.lost, !.writes = op.writes]

\* (a catch block that lets the error leave the call)
CatchRethrows(op, msg) ==
  [IdleOp EXCEPT !.kind = op.kind, !.pc = "done", !.thrown = TRUE,
                 !.net = op.net, !.requests = op.requests,
                 !.batches = op.batches, !.batchOk = op.batchOk,
                 !.up = op.up, !.down = op.down, !.unread = op.unread,
                 !.lost = op.lost, !.writes = op.writes]

\* catch (error): a failure Result with the error's message
Catch(op, msg) == Return(op, FailureResult(msg, op.filesUploaded, op.filesDownloaded))

\* (no configuration check)
ConfiguredAlways(a) == TRUE

\* if (!this.api): the configuration check at entry
Configured(a) == a # Null

\* (no busy check)
BusyNever(flag) == FALSE

\* if (this.isSyncing): the busy check at entry
Busy(flag) == flag

\* (the early returns moved inside the try block, so that finally runs)
EarlyReturnClears(flag) == FALSE

\* the flag after a return that precedes the try block
EarlyReturn(flag) == flag

\* (no finally block)
FinallyKeeps(flag) == flag

\* finally { this.isSyncing = false }
Finally(flag) == FALSE

Snapshot ==
  [settings |-> settings, client |-> api, vault |-> vault, tree |-> HeadTree(remote),
   repo |-> remote.repo, updates |-> updates]

Rules(s, a) ==
  [folders |-> s.excludedFolders, files |-> s.excludedFiles,
   template |-> s.commitMessage, client |-> a]

\* a step reads this.api for a method call
UseClient(op) ==
  [op EXCEPT !.client = api, !.net = TRUE, !.used = Some([@[1] EXCEPT !.client = api])]

\* a step reads the exclusion rules of this.settings
UseFilters(op) ==
  [op EXCEPT !.used = Some([@[1] EXCEPT !.folders = settings.excludedFolders,
                                       !.files = settings.excludedFiles])]

UseFolders(op) ==
  [op EXCEPT !.used = Some([@[1] EXCEPT !.folders = settings.excludedFolders])]

UseTemplate(op) ==
  [op EXCEPT !.used = Some([@[1] EXCEPT !.template = settings.commitMessage])]

\* --------------------------------------------------- the code between awaits
Range(seq) == {seq[i] : i \in 1..Len(seq)}

\* getVaultFiles()
GetVaultFiles ==
  Listing({p \in PresentPaths(vault) : ~VaultFileExcluded(settings, p)}, 1)

\* (the two counters in each other's place)
SuccessResultSwapped(op) ==
  IF op.kind = "pull"
  THEN Result(TRUE, "Successfully pulled", op.filesDownloaded, 0)
  ELSE Result(TRUE, "Sync complete", op.filesDownloaded, op.filesUploaded)

\* the Results of a pull and of a sync that ran to their end
SuccessResult(op) ==
  IF op.kind = "pull"
  THEN Result(TRUE, "Successfully pulled", 0, op.filesDownloaded)
  ELSE Result(TRUE, "Sync complete", op.filesUploaded, op.filesDownloaded)

\* the download loops' test on one remote path
SkipRemote(op, path) ==
  IF op.kind = "pull"
  THEN PullShouldSkip(settings, path)
  ELSE SyncShouldSkip(settings, path) \/ path \in Range(op.vaultFiles)

\* the first remote file at or after i that is not skipped; 0 if none
RECURSIVE NextIndex(_, _)
NextIndex(op, i) ==
  IF i > Len(op.remoteFiles) THEN 0
  ELSE IF SkipRemote(op, op.remoteFiles[i]) THEN NextIndex(op, i + 1)
  ELSE i

\* the download loop from remote file i to its next getFileContent, or to
\* the end of the operation
NextDownload(op, i) ==
  LET seen == IF i > Len(op.remoteFiles) THEN op
              ELSE IF op.kind = "pull" THEN UseFilters(op) ELSE UseFolders(op)
      j == NextIndex(op, i)
  IN IF j = 0 THEN Return(seen, SuccessResult(seen))
     ELSE IF api = Null THEN Catch(seen, TypeErrorMsg)
     ELSE [UseClient(seen) EXCEPT !.pc = "download", !.idx = j]

\* batchUpload has returned ok
AfterBatch(op, ok) ==
  LET back == [op EXCEPT !.message = <<>>, !.commitSha = Null, !.baseTreeSha = Null,
                         !.treeItems = <<>>, !.newTreeSha = Null,
                         !.newCommitSha = Null, !.idx = 0,
                         !.buHead = Null, !.batchOk = Some(ok)]
  IN IF op.kind = "batchUpload" THEN Return(back, ok)
     ELSE IF op.kind = "push"
     THEN IF ok
          THEN Return(back, Result(TRUE, "Successfully pushed", Len(op.filesToUpload), 0))
          ELSE Catch(back, PushFailedMsg)
     ELSE IF ok
          THEN NextDownload(back, 1)
          ELSE Catch(back, UploadFailedMsg)

\* (content of exactly the threshold's length is inlined too)
InlinedUpTo(content) == ContentLength(content) <= InlineThreshold

\* if (file.content.length < 100000): the content goes into the tree entry
Inlined(content) == ContentLength(content) < InlineThreshold

\* batchUpload's loop over the files from file i to its next blob request,
\* or to the tree request
RECURSIVE ItemsFrom(_, _)
ItemsFrom(op, i) ==
  IF i > Len(op.filesToUpload)
  THEN IF Len(op.treeItems) = 0
       THEN AfterBatch(op, TRUE)
       ELSE [op EXCEPT !.pc = "bu_mktree"]
  ELSE LET f == op.filesToUpload[i]
       IN IF Inlined(f.content)
          THEN ItemsFrom([op EXCEPT !.treeItems = Append(@, InlineItem(f))], i + 1)
          ELSE [op EXCEPT !.pc = "bu_blob", !.idx = i]

\* this.api.batchUpload(filesToUpload, this.getCommitMessage())
CallBatchUpload(op) ==
  IF api = Null THEN Catch(op, TypeErrorMsg)
  ELSE [UseTemplate(UseClient(op)) EXCEPT
          !.pc = "bu_head", !.message = GetCommitMessage(settings),
          !.buHead = Some(remote.head),
          !.batches = @ + 1,
          !.up = @ \cup {op.filesToUpload[n].path : n \in 1..Len(op.filesToUpload)}]

\* (a push that hands the empty list to batchUpload)
NoFilesStillUploads(op) == CallBatchUpload(op)

\* if (filesToUpload.length === 0) return success
NoFilesToPush(op) == Return(op, Result(TRUE, "No files to push", 0, 0))

\* every file of vaultFiles has been read
AfterReads(op) ==
  IF op.kind = "push"
  THEN IF Len(op.filesToUpload) = 0
       THEN NoFilesToPush(op)
       ELSE CallBatchUpload(op)
  ELSE IF Len(op.filesToUpload) > 0
       THEN CallBatchUpload(op)
       ELSE NextDownload(op, 1)

StartReads(op) ==
  IF Len(op.vaultFiles) = 0 THEN AfterReads(op)
  ELSE [op EXCEPT !.pc = "read", !.idx = 1]

\* getAllFiles has returned files
AfterGetAllFiles(op, files) ==
  LET got == [op EXCEPT !.remoteFiles = files, !.commitSha = Null, !.treeSha = Null]
  IN IF op.kind = "pull" THEN NextDownload(got, 1) ELSE StartReads(got)

\* ensureRepository has returned true
AfterEnsure(op) ==
  LET listed == [UseFilters(op) EXCEPT !.vaultFiles = GetVaultFiles]
  IN IF op.kind = "push" THEN StartReads(listed)
     ELSE IF api = Null THEN Catch(listed, TypeErrorMsg)
     ELSE [UseClient(listed) EXCEPT !.pc = "ga_head"]

\* (a caller that ignores ensureRepository's false)
RepoUnavailableIgnored(op) == AfterEnsure(op)

\* if (!repoExists) throw new Error('Could not access or create repository')
RepoUnavailable(op) == Catch(op, RepoMsg)

\* the try block up to its first await
Enter(k) ==
  LET op0 == [IdleOp EXCEPT !.kind = k, !.start = Some(Snapshot),
                            !.used = Some(Rules(settings, api))]
  IN IF api = Null THEN Catch(op0, TypeErrorMsg)
     ELSE [UseClient(op0) EXCEPT !.pc = IF k = "pull" THEN "ga_head" ELSE "ensure_get"]

\* --------------------------------------------------------------- actions
\* the outcomes of a request that can succeed only if pre holds
Outcomes(pre) == {b \in BOOLEAN : b => pre}

RepoExists == remote.repo # "absent"

\* the request whose answer the code awaits at pc
Requests(pc) ==
  CASE pc = "ensure_get" -> {"GET /repos/{owner}/{repo}"}
    [] pc = "ensure_create" -> {"POST /user/repos"}
    [] pc \in {"ga_head", "bu_head"} -> {"GET /git/refs/heads/{branch}"}
    [] pc \in {"ga_tree", "bu_tree"} -> {"GET /git/commits/{sha}"}
    [] pc = "ga_list" -> {"GET /git/trees/{sha}"}
    [] pc = "bu_blob" -> {"POST /git/blobs"}
    [] pc = "bu_mktree" -> {"POST /git/trees"}
    [] pc = "bu_commit" -> {"POST /git/commits"}
    [] pc = "bu_patch" -> {"PATCH /git/refs/heads/{branch}"}
    [] pc = "bu_post" -> {"POST /git/refs"}
    [] pc \in {"download", "df_sha"} -> {"GET /contents/{path}"}
    [] pc = "df_delete" -> {"DELETE /contents/{path}"}
    [] OTHER -> {}

\* one step of invocation i: its new state, the remote and the vault
Commit(i, op2, r, v) ==
  /\ ops' = [ops EXCEPT ![i] = [op2 EXCEPT !.requests = @ \cup Requests(ops[i].pc)]]
  /\ isSyncing' = IF op2.pc = "done" THEN Finally(isSyncing) ELSE isSyncing
  /\ remote' = r
  /\ vault' = v
  /\ UNCHANGED <<settings, api, updates>>

\* push(), pull() or sync() is called
Invoke(i, k) ==
  /\ ops[i].pc = "idle"
  /\ \A j \in 1..(i - 1) : ops[j].pc # "idle"
  /\ IF ~Configured(api)
     THEN /\ ops' = [ops EXCEPT ![i] = Return([IdleOp EXCEPT !.kind = k],
                                              Result(FALSE, NotConfiguredMsg, 0, 0))]
          /\ isSyncing' = EarlyReturn(isSyncing)
     ELSE IF Busy(isSyncing)
     THEN /\ ops' = [ops EXCEPT ![i] = Return([IdleOp EXCEPT !.kind = k],
                                              Result(FALSE, BusyMsg, 0, 0))]
          /\ isSyncing' = EarlyReturn(isSyncing)
     ELSE LET op1 == Enter(k)
          IN /\ ops' = [ops EXCEPT ![i] = op1]
             /\ isSyncing' = IF op1.pc = "done" THEN Finally(TRUE) ELSE TRUE
  /\ UNCHANGED <<settings, api, vault, remote, updates>>

\* updateSettings(settings)
UpdateSettings(s) ==
  /\ updates < MaxUpdates
  /\ s # settings
  /\ settings' = s
  /\ api' = InitializeAPI(s)
  /\ updates' = updates + 1
  /\ UNCHANGED <<isSyncing, vault, remote, ops>>

\* ensureRepository: GET /repos/{owner}/{repo} answers
EnsureGet(i) ==
  /\ ops[i].pc = "ensure_get"
  /\ \E ok \in Outcomes(RepoExists) :
       Commit(i, IF ok THEN AfterEnsure(ops[i])
                 ELSE [ops[i] EXCEPT !.pc = "ensure_create"], remote, vault)

\* ensureRepository: POST /user/repos answers
EnsureCreate(i) ==
  /\ ops[i].pc = "ensure_create"
  /\ \E ok \in Outcomes(~RepoExists) :
       IF ok
       THEN Commit(i, AfterEnsure(ops[i]),
                   [repo |-> "private", head |-> Some(InitialCommit)], vault)
       ELSE Commit(i, RepoUnavailable(ops[i]), remote, vault)

\* getAllFiles: getLatestCommitSha answers
GaHead(i) ==
  /\ ops[i].pc = "ga_head"
  /\ \E ok \in Outcomes(RepoExists /\ remote.head # Null) :
       Commit(i, IF ok THEN [ops[i] EXCEPT !.pc = "ga_tree", !.commitSha = remote.head]
                 ELSE AfterGetAllFiles(ops[i], <<>>), remote, vault)

\* getAllFiles: getTreeSha answers
GaTree(i) ==
  /\ ops[i].pc = "ga_tree"
  /\ \E ok \in Outcomes(RepoExists) :
       Commit(i, IF ok THEN [ops[i] EXCEPT !.pc = "ga_list",
                                           !.treeSha = Some(ops[i].commitSha[1].tree)]
                 ELSE Catch(ops[i], ApiErrorMsg), remote, vault)

\* getAllFiles: GET /git/trees/{sha}?recursive=1 answers
GaList(i) ==
  /\ ops[i].pc = "ga_list"
  /\ \E ok \in Outcomes(RepoExists) :
       Commit(i, IF ok
                 THEN AfterGetAllFiles(ops[i], Listing(PresentPaths(ops[i].treeSha[1]), 1))
                 ELSE Catch(ops[i], ApiErrorMsg), remote, vault)

\* getFileContent(file): the vault's read answers
ReadFile(i) ==
  /\ ops[i].pc = "read"
  /\ LET op == ops[i]
         path == op.vaultFiles[op.idx]
         got == [op EXCEPT !.filesToUpload = Append(@, [path |-> path, content |-> vault[path]]),
                           !.filesUploaded = IF op.kind = "sync" THEN @ + 1 ELSE @]
     IN \/ Commit(i, IF op.idx < Len(op.vaultFiles)
                     THEN [got EXCEPT !.idx = @ + 1]
                     ELSE AfterReads(got), remote, vault)
        \/ \E err \in VaultErrors : Commit(i, Catch(op, ErrorMessage(err)), remote, vault)

\* batchUpload: getLatestCommitSha answers
BuHead(i) ==
  /\ ops[i].pc = "bu_head"
  /\ \E ok \in Outcomes(RepoExists /\ remote.head # Null) :
       Commit(i, IF ok THEN [ops[i] EXCEPT !.pc = "bu_tree", !.commitSha = remote.head]
                 ELSE ItemsFrom([ops[i] EXCEPT !.commitSha = Null, !.baseTreeSha = Null], 1),
              remote, vault)

\* batchUpload: getTreeSha answers
BuTree(i) ==
  /\ ops[i].pc = "bu_tree"
  /\ \E ok \in Outcomes(RepoExists) :
       Commit(i, IF ok
                 THEN ItemsFrom([ops[i] EXCEPT !.baseTreeSha = Some(ops[i].commitSha[1].tree)], 1)
                 ELSE AfterBatch(ops[i], FALSE), remote, vault)

\* a write request of batchUpload was answered
Wrote(op, req, ok) == [op EXCEPT !.writes = Append(@, [req |-> req, ok |-> ok])]

\* batchUpload: POST /git/blobs answers
BuBlob(i) ==
  /\ ops[i].pc = "bu_blob"
  /\ LET op == Wrote(ops[i], "blob", TRUE)
         f == op.filesToUpload[op.idx]
     IN \E ok \in Outcomes(RepoExists) :
          Commit(i, IF ok
                    THEN ItemsFrom([op EXCEPT !.treeItems = Append(@, BlobItem(f, f.content))],
                                   op.idx + 1)
                    ELSE AfterBatch(Wrote(ops[i], "blob", FALSE), FALSE), remote, vault)

\* (the new tree is put on the branch without a commit request: the ref
\* update follows the tree request)
TreeCreatedSkipsCommit(op, treeSha) ==
  [op EXCEPT !.pc = "bu_patch", !.newTreeSha = Some(treeSha), !.newCommitSha = op.commitSha]

\* const newTreeSha = await this.createTree(...); createCommit is next
TreeCreated(op, treeSha) == [op EXCEPT !.pc = "bu_commit", !.newTreeSha = Some(treeSha)]

\* batchUpload: createTree answers
BuMkTree(i) ==
  /\ ops[i].pc = "bu_mktree"
  /\ LET op == ops[i]
     IN \E ok \in Outcomes(RepoExists) :
          Commit(i, IF ok
                    THEN TreeCreated(Wrote(op, "tree", TRUE),
                                     CreateTree(op.baseTreeSha, op.treeItems))
                    ELSE AfterBatch(Wrote(op, "tree", FALSE), FALSE), remote, vault)

\* batchUpload: createCommit answers
BuCommit(i) ==
  /\ ops[i].pc = "bu_commit"
  /\ LET op == ops[i]
     IN \E ok \in Outcomes(RepoExists) :
          Commit(i, IF ok
                    THEN [Wrote(op, "commit", TRUE) EXCEPT
                            !.pc = "bu_patch",
                            !.newCommitSha =
                               Some(CreateCommit(op.message, op.newTreeSha[1], op.commitSha))]
                    ELSE AfterBatch(Wrote(op, "commit", FALSE), FALSE), remote, vault)

\* (a ref update without force: the ref moves only to a commit that builds
\* on the commit it points at)
FastForwardPatch(r, sha) == IF sha[1].parents = r.head THEN [r EXCEPT !.head = sha] ELSE r

\* PATCH with force: true: the ref is set to sha, whatever it pointed at
ForcePatch(r, sha) == [r EXCEPT !.head = sha]

\* (no fallback: a failed PATCH ends updateBranchRef with false)
PatchFailedReturns(op) == AfterBatch(op, FALSE)

\* catch: the branch might not exist, the ref creation is tried
PatchFailed(op) == [op EXCEPT !.pc = "bu_post"]

\* the ref update replaces a head that is not the head the call read
Replacing(op) ==
  [op EXCEPT !.lost = IF remote.head # op.commitSha THEN Some(remote.head) ELSE @]

\* updateBranchRef: PATCH /git/refs/heads/{branch} (force) answers
BuPatch(i) ==
  /\ ops[i].pc = "bu_patch"
  /\ LET op == ops[i]
     IN \E ok \in Outcomes(RepoExists /\ remote.head # Null) :
          IF ok
          THEN Commit(i, AfterBatch(Wrote(Replacing(op), "patch", TRUE), TRUE),
                      ForcePatch(remote, op.newCommitSha), vault)
          ELSE Commit(i, PatchFailed(Wrote(op, "patch", FALSE)), remote, vault)

\* updateBranchRef: POST /git/refs answers
BuPost(i) ==
  /\ ops[i].pc = "bu_post"
  /\ LET op == ops[i]
     IN \E ok \in Outcomes(RepoExists /\ remote.head = Null) :
          IF ok
          THEN Commit(i, AfterBatch(Wrote(Replacing(op), "post", TRUE), TRUE),
                      [remote EXCEPT !.head = op.newCommitSha], vault)
          ELSE Commit(i, AfterBatch(Wrote(op, "post", FALSE), FALSE), remote, vault)

\* the download loops: api.getFileContent(path) answers and, if it has
\* content, writeFileContent(path, content) writes it to the vault
Download(i) ==
  /\ ops[i].pc = "download"
  /\ LET op == ops[i]
         path == op.remoteFiles[op.idx]
         content == HeadTree(remote)[path]
         normalizedPath == NormalizePath(path)
         written == [op EXCEPT !.filesDownloaded = @ + 1, !.down = @ \cup {normalizedPath}]
     IN \/ /\ RepoExists
           /\ content # Absent
           /\ Commit(i, NextDownload(written, op.idx + 1), remote,
                     [vault EXCEPT ![normalizedPath] = content])
        \/ /\ RepoExists
           /\ content # Absent
           /\ \E err \in VaultErrors : Commit(i, Catch(op, ErrorMessage(err)), remote, vault)
        \/ Commit(i, NextDownload([op EXCEPT !.unread = @ \cup {path}], op.idx + 1),
                  remote, vault)

\* ------------------------------------------- GitHubAPI's methods called directly
\* The file lists and the message a caller hands to batchUpload.
ApiFileLists ==
  {<<>>,
   <<[path |-> NotePath, content |-> "v1"]>>,
   <<[path |-> NotePath, content |-> "big"], [path |-> DsPath, content |-> "v1"]>>,
   <<[path |-> DsPath, content |-> "edge"], [path |-> NotePath, content |-> "huge"],
     [path |-> PluginPath, content |-> "big"]>>}

DeleteMessage == <<"del">>

\* the first idle call number
FreeCall(i) ==
  /\ ops[i].pc = "idle"
  /\ \A j \in 1..(i - 1) : ops[j].pc # "idle"

\* api.batchUpload(files, message) is called; the message is the one
\* getCommitMessage() makes
ApiBatchUpload(i, files) ==
  /\ FreeCall(i)
  /\ api # Null
  /\ ops' = [ops EXCEPT ![i] =
               CallBatchUpload([IdleOp EXCEPT !.kind = "batchUpload",
                                              !.filesToUpload = files,
                                              !.start = Some(Snapshot),
                                              !.used = Some(Rules(settings, api))])]
  /\ UNCHANGED <<settings, api, isSyncing, vault, remote, updates>>

\* api.deleteFile(path, message) is called
ApiDeleteFile(i, path) ==
  /\ FreeCall(i)
  /\ api # Null
  /\ ops' = [ops EXCEPT ![i] =
               [UseClient([IdleOp EXCEPT !.kind = "deleteFile",
                                         !.start = Some(Snapshot),
                                         !.used = Some(Rules(settings, api))])
                  EXCEPT !.pc = "df_sha", !.path = Some(path), !.message = DeleteMessage]]
  /\ UNCHANGED <<settings, api, isSyncing, vault, remote, updates>>

\* (a deleteFile that issues the DELETE whatever getFileSha found)
NoShaDeletes(op) == [op EXCEPT !.pc = "df_delete"]

\* if (!sha) return true
NoSha(op) == Return(op, TRUE)

\* deleteFile: getFileSha answers (null on any error)
DfSha(i) ==
  /\ ops[i].pc = "df_sha"
  /\ LET op == ops[i]
         blob == HeadTree(remote)[op.path[1]]
     IN \E ok \in Outcomes(RepoExists /\ blob # Absent) :
          Commit(i, IF ok THEN [op EXCEPT !.pc = "df_delete", !.sha = Some(blob)]
                    ELSE NoSha(op), remote, vault)

\* DELETE /contents/{path}: a commit on the branch without the path
DeleteCommit(r, path, message) ==
  CreateCommit(message, [HeadTree(r) EXCEPT ![path] = Absent], r.head)

\* deleteFile: DELETE /contents/{path} answers
DfDelete(i) ==
  /\ ops[i].pc = "df_delete"
  /\ LET op == ops[i]
         path == op.path[1]
     IN \E ok \in Outcomes(op.sha # Null /\ RepoExists /\ HeadTree(remote)[path] = op.sha[1]) :
          IF ok
          THEN Commit(i, Return(op, TRUE),
                      [remote EXCEPT !.head = Some(DeleteCommit(remote, path, op.message))],
                      vault)
          ELSE Commit(i, Return(op, FALSE), remote, vault)

\* ------------------------------------------------------ an external writer
\* Someone else pushes to the branch: a commit on top of the head (or a
\* first commit) that adds a README.  It does not push on top of its own
\* commit, so that it pushes at most once between two of the engine's.
ExternalMessage == <<"ext">>

ExternalCommit(head) ==
  [tree |-> [(IF head = Null THEN EmptyTree ELSE head[1].tree) EXCEPT ![ReadmePath] = "v2"],
   parents |-> IF head = Null THEN <<>> ELSE <<head[1]>>,
   message |-> ExternalMessage]

ExternalPush ==
  /\ RepoExists
  /\ IF remote.head = Null THEN TRUE ELSE remote.head[1].message # ExternalMessage
  /\ remote' = [remote EXCEPT !.head = Some(ExternalCommit(remote.head))]
  /\ UNCHANGED <<settings, api, isSyncing, vault, ops, updates>>

\* ------------------------------------------------------ the auto-sync timer
\* (a timer callback that does not look at the busy flag)
IsBusyNever == FALSE

\* isBusy()
IsBusy == isSyncing

\* a tick that found the engine busy: the callback ends, nothing is called
SkippedTick == [IdleOp EXCEPT !.kind = "tick", !.pc = "done"]

\* the setInterval callback of setupAutoSync fires.  After sync() the
\* callback stores lastSyncTime and hands the same settings to
\* updateSettings, which changes none of the fields kept here.
AutoSyncTick(i) ==
  /\ FreeCall(i)
  /\ IF IsBusy
     THEN /\ ops' = [ops EXCEPT ![i] = SkippedTick]
          /\ UNCHANGED <<settings, api, isSyncing, vault, remote, updates>>
     ELSE Invoke(i, "sync")

\* ------------------------------------------------- file content, both ways
\* '[BINARY:' and ']'
BinaryPrefix == <<91, 66, 73, 78, 65, 82, 89, 58>>
BinarySuffix == <<93>>

BinaryExtensions ==
  {<<".", "png">>, <<".", "jpg">>, <<".", "jpeg">>, <<".", "gif">>, <<".", "pdf">>,
   <<".", "mp3">>, <<".", "mp4">>, <<".", "webp">>, <<".", "svg">>, <<".", "ico">>}

ToLowerCase(e) == IF e = "PNG" THEN "png" ELSE e

\* TFile.extension: the part of the name after the last "."
Extension(path) ==
  IF \E i \in 1..Len(path) : path[i] = "."
  THEN LET i == CHOOSE j \in 1..Len(path) :
                   /\ path[j] = "."
                   /\ \A k \in (j + 1)..Len(path) : path[k] # "."
       IN SubSeq(path, i + 1, Len(path))
  ELSE <<>>

\* getFileContent: isBinary
IsBinary(path) ==
  \E ext \in BinaryExtensions :
     [k \in 1..Len(Extension(path)) |-> ToLowerCase(Extension(path)[k])] = Tail(ext)

\* SyncService.getFileContent(file): the wrapper around the base64 of the
\* bytes of a binary file, the text of any other file
GetFileContent(path, bytes) ==
  IF IsBinary(path)
  THEN BinaryPrefix \o Btoa(bytes) \o BinarySuffix
  ELSE TextDecode(bytes)

\* (a write path that decides from the extension, as the read path does)
LooksBinaryByExtension(path, content) == IsBinary(path)

\* writeFileContent: the test that sends a content to the binary branch
LooksBinary(path, content) ==
  StartsWith(content, BinaryPrefix) /\ EndsWith(content, BinarySuffix)

\* (a binary branch that takes the base64 from position 7)
UnwrapShort(content) == SubSeq(content, 8, Len(content) - 1)

\* content.slice(8, -1)
Unwrap(content) == SubSeq(content, 9, Len(content) - 1)

\* writeFileContent(path, content): the bytes it hands to the vault and the
\* branch it took; null when atob throws
WriteFileContent(path, content) ==
  IF LooksBinary(path, content)
  THEN LET binary == Atob(Unwrap(content))
       IN IF binary = Null THEN Null
          ELSE Some([branch |-> "binary", bytes |-> binary[1]])
  ELSE Some([branch |-> "text", bytes |-> TextEncode(content)])

\* GitHubAPI.encodeBase64 / decodeBase64
EncodeBase64(str) == Btoa(TextEncode(str))
Newline == {10}
DecodeBase64(base64) ==
  LET binary == Atob(Without(base64, Newline, 1))
  IN IF binary = Null THEN Null ELSE Some(TextDecode(binary[1]))

\* GET /contents/{path}: the base64 of the blob, in lines
ContentsResponse(blob) == IF blob = <<>> THEN <<>> ELSE Btoa(blob) \o <<10>>

\* GitHubAPI.getFileContent: null for an empty content or any error
ApiGetFileContent(blob) ==
  LET content == ContentsResponse(blob)
  IN IF content # <<>> THEN DecodeBase64(content) ELSE Null

\* The files of the content paths: a picture and a note.
ImagePath == <<"i", ".", "PNG">>
TextPath == <<"t", ".", "md">>

ByteValues == {0, 97, 255}
ByteSeqs == UNION {[1..n -> ByteValues] : n \in 0..MaxBytes}

\* "", "a", "aé", "[a]", "[BINARY:]", "[BINARY:YQ==]", "[BINARY:?]"
TextContents ==
  {<<>>, <<97>>, <<97, 233>>, <<91, 97, 93>>,
   BinaryPrefix \o BinarySuffix,
   BinaryPrefix \o <<89, 81, 61, 61>> \o BinarySuffix,
   BinaryPrefix \o <<63>> \o BinarySuffix}

\* push or sync reads the file at path: getFileContent(file)
CodecRead(i, path) ==
  /\ FreeCall(i)
  /\ path \in DOMAIN vault
  /\ Commit(i, [IdleOp EXCEPT !.kind = "content", !.pc = "encoded",
                              !.path = Some(path),
                              !.filesToUpload =
                                 <<[path |-> path,
                                    content |-> GetFileContent(path, vault[path])]>>,
                              !.start = Some(Snapshot)],
            remote, vault)

\* the content is committed to the branch as a tree entry's content
CodecUpload(i) ==
  /\ ops[i].pc = "encoded"
  /\ LET op == ops[i]
         f == op.filesToUpload[1]
         tree == (f.path :> TextEncode(f.content))
     IN Commit(i, [op EXCEPT !.pc = "uploaded"],
               [remote EXCEPT !.head = Some(CreateCommit(<<"up">>, tree, remote.head))],
               vault)

\* pull or sync fetches the path: api.getFileContent(path)
CodecFetch(i) ==
  /\ ops[i].pc = "uploaded"
  /\ LET op == ops[i]
         content == ApiGetFileContent(remote.head[1].tree[op.path[1]])
     IN Commit(i, IF content = Null
                  THEN [op EXCEPT !.pc = "done", !.results = <<"not transferred">>]
                  ELSE [op EXCEPT !.pc = "fetched", !.content = content],
               remote, vault)

\* writeFileContent(path, content), with the content as read locally or as
\* fetched from the remote
CodecWrite(i) ==
  /\ ops[i].pc \in {"encoded", "fetched"}
  /\ LET op == ops[i]
         path == op.path[1]
         content == IF op.pc = "fetched" THEN op.content[1]
                    ELSE op.filesToUpload[1].content
         w == WriteFileContent(path, content)
     IN IF w = Null
        THEN Commit(i, [op EXCEPT !.pc = "done", !.results = <<"threw">>], remote, vault)
        ELSE Commit(i, [op EXCEPT !.pc = "done", !.results = <<w[1].branch>>], remote,
                    [vault EXCEPT ![path] = w[1].bytes])

\* Initial vaults: empty; a note, a plugin file and a .DS file; a large note
\* and a .DS file; a .DS file only.
\* ------------------------------------------------- the commit message alone
\* Templates the user can type: text, with the date token anywhere and any
\* number of times.
TemplateTokens == {"s", ":", DateToken}

Templates == UNION {[1..n -> TemplateTokens] : n \in 0..MaxTemplate}

\* getCommitMessage() is called and returns
RenderMessage(i) ==
  /\ FreeCall(i)
  /\ ops' = [ops EXCEPT ![i] = [IdleOp EXCEPT !.kind = "message", !.pc = "done",
                                              !.message = GetCommitMessage(settings),
                                              !.start = Some(Snapshot),
                                              !.used = Some(Rules(settings, api))]]
  /\ UNCHANGED <<settings, api, isSyncing, vault, remote, updates>>

InitVaults ==
  {EmptyTree,
   [EmptyTree EXCEPT ![NotePath] = "v1", ![PluginPath] = "v1", ![DsPath] = "v1"],
   [EmptyTree EXCEPT ![NotePath] = "big", ![DsPath] = "v1"],
   [EmptyTree EXCEPT ![DsPath] = "v1"]}

\* Initial branch trees: all three files; a note only.
InitTrees ==
  {[EmptyTree EXCEPT ![NotePath] = "v2", ![PluginPath] = "v2", ![DsPath] = "v2"],
   [EmptyTree EXCEPT ![NotePath] = "v2"]}

\* Initial remotes: no repository; a repository without history; a
\* repository whose branch has one commit.
InitRemotes ==
  {[repo |-> "absent", head |-> Null], [repo |-> "public", head |-> Null]}
  \cup {[repo |-> "public",
         head |-> Some([tree |-> t, parents |-> <<>>, message |-> <<"init">>])] :
          t \in InitTrees}

Init ==
  /\ settings \in {Configured1, Unconfigured}
  /\ api = InitializeAPI(settings)
  /\ isSyncing = FALSE
  /\ vault \in InitVaults
  /\ remote \in InitRemotes
  /\ ops = [i \in Calls |-> IdleOp]
  /\ updates = 0

Next ==
  \/ \E i \in Calls, k \in Kinds : Invoke(i, k)
  \/ \E s \in SettingsChoices : UpdateSettings(s)
  \/ \E i \in Calls : EnsureGet(i)
  \/ \E i \in Calls : EnsureCreate(i)
  \/ \E i \in Calls : GaHead(i)
  \/ \E i \in Calls : GaTree(i)
  \/ \E i \in Calls : GaList(i)
  \/ \E i \in Calls : ReadFile(i)
  \/ \E i \in Calls : BuHead(i)
  \/ \E i \in Calls : BuTree(i)
  \/ \E i \in Calls : BuBlob(i)
  \/ \E i \in Calls : BuMkTree(i)
  \/ \E i \in Calls : BuCommit(i)
  \/ \E i \in Calls : BuPatch(i)
  \/ \E i \in Calls : BuPost(i)
  \/ \E i \in Calls : Download(i)

Spec == Init /\ [][Next]_vars

\* the awaited calls answer: every step of an operation in flight
Step ==
  \E i \in Calls :
     \/ EnsureGet(i) \/ EnsureCreate(i)
     \/ GaHead(i) \/ GaTree(i) \/ GaList(i)
     \/ ReadFile(i)
     \/ BuHead(i) \/ BuTree(i) \/ BuBlob(i) \/ BuMkTree(i) \/ BuCommit(i)
     \/ BuPatch(i) \/ BuPost(i)
     \/ Download(i)

\* Every remote request and every file-store call eventually answers, and
\* the event loop then runs the code that awaits it.
LiveSpec == Init /\ [][Next]_vars /\ WF_vars(Step)

\* A caller of GitHubAPI alone: batchUpload and deleteFile called directly,
\* with no SyncService (and no busy flag) in front of them.
ApiInit ==
  /\ settings = Configured1
  /\ api = InitializeAPI(settings)
  /\ isSyncing = FALSE
  /\ vault = EmptyTree
  /\ remote \in InitRemotes
  /\ ops = [i \in Calls |-> IdleOp]
  /\ updates = 0

ApiNext ==
  \/ \E i \in Calls, files \in ApiFileLists : ApiBatchUpload(i, files)
  \/ \E i \in Calls, path \in Paths : ApiDeleteFile(i, path)
  \/ \E i \in Calls : BuHead(i)
  \/ \E i \in Calls : BuTree(i)
  \/ \E i \in Calls : BuBlob(i)
  \/ \E i \in Calls : BuMkTree(i)
  \/ \E i \in Calls : BuCommit(i)
  \/ \E i \in Calls : BuPatch(i)
  \/ \E i \in Calls : BuPost(i)
  \/ \E i \in Calls : DfSha(i)
  \/ \E i \in Calls : DfDelete(i)

ApiSpec == ApiInit /\ [][ApiNext]_vars

\* The plugin with auto-sync on: the timer exists only if the engine was
\* configured when it was set up.  The commands start pushes and pulls; a
\* sync is started by the timer only, so that every sync is a tick's.
TimerInit ==
  /\ Init
  /\ settings = Configured1

TimerNext ==
  \/ \E i \in Calls : AutoSyncTick(i)
  \/ \E i \in Calls, k \in {"push", "pull"} : Invoke(i, k)
  \/ Step

TimerSpec == TimerInit /\ [][TimerNext]_vars

\* One file of the vault going through getFileContent, the remote and
\* writeFileContent: a binary file of any bytes, or a text file.
CodecInit ==
  /\ settings = Configured2
  /\ api = InitializeAPI(settings)
  /\ isSyncing = FALSE
  /\ vault \in {(ImagePath :> b) : b \in ByteSeqs}
               \cup {(TextPath :> TextEncode(t)) : t \in TextContents}
  /\ remote = [repo |-> "public", head |-> Null]
  /\ ops = [i \in Calls |-> IdleOp]
  /\ updates = 0

CodecNext ==
  \/ \E i \in Calls, path \in {ImagePath, TextPath} : CodecRead(i, path)
  \/ \E i \in Calls : CodecUpload(i)
  \/ \E i \in Calls : CodecFetch(i)
  \/ \E i \in Calls : CodecWrite(i)

CodecSpec == CodecInit /\ [][CodecNext]_vars

\* GitHubAPI's callers and an external writer on the same branch.
RaceNext ==
  \/ ApiNext
  \/ ExternalPush

RaceSpec == ApiInit /\ [][RaceNext]_vars

\* getCommitMessage on its own, for every template of the bound.
MessageInit ==
  /\ settings \in {[Configured2 EXCEPT !.commitMessage = t] : t \in Templates}
  /\ api = InitializeAPI(settings)
  /\ isSyncing = FALSE
  /\ vault = EmptyTree
  /\ remote = [repo |-> "public", head |-> Null]
  /\ ops = [i \in Calls |-> IdleOp]
  /\ updates = 0

MessageNext == \E i \in Calls : RenderMessage(i)

MessageSpec == MessageInit /\ [][MessageNext]_vars

\* ---------------------------------------------------------------- claims
Done(op) == op.pc = "done"
Entered(op) == op.net

\* invocation i is made in this step
Invoked(i) == ops[i].pc = "idle" /\ ops'[i].pc # "idle"

\* invocation i ends in this step with the one Result r
ReturnsWith(i, msg) ==
  /\ Done(ops'[i])
  /\ ~ops'[i].thrown
  /\ Len(ops'[i].results) = 1
  /\ ~ops'[i].results[1].success
  /\ ops'[i].results[1].message = msg

NoIO(i) ==
  /\ remote' = remote
  /\ vault' = vault
  /\ ~ops'[i].net
  /\ ops'[i].batches = 0
  /\ ops'[i].down = {}

OthersInFlight(i) == \E j \in Calls \ {i} : InFlight(ops[j])

AtMostOneSyncing == Cardinality({i \in Calls : InFlight(ops'[i])}) <= 1

\* C1 (as stated): at most one invocation is in Syncing at any time, and
\* every invocation made while one is in flight returns the 'Sync already in
\* progress' failure and does no remote write and no local write.
C1_Original ==
  [][/\ AtMostOneSyncing
     /\ \A i \in Calls :
          (Invoked(i) /\ OthersInFlight(i)) => (ReturnsWith(i, BusyMsg) /\ NoIO(i))]_vars

\* C1 (amended): at most one invocation is in Syncing at any time, and every
\* invocation made while one is in flight returns a failure at once, 'Sync
\* already in progress' or, if the configuration was cleared meanwhile,
\* 'GitHub not configured', and does no remote write and no local write.
C1_MutualExclusion ==
  [][/\ AtMostOneSyncing
     /\ \A i \in Calls :
          (Invoked(i) /\ OthersInFlight(i)) =>
             /\ ReturnsWith(i, BusyMsg) \/ ReturnsWith(i, NotConfiguredMsg)
             /\ ReturnsWith(i, NotConfiguredMsg) => api = Null
             /\ NoIO(i)]_vars

\* an invocation was rejected as busy while another is in flight
C1_Witness ==
  \E i, j \in Calls :
     /\ InFlight(ops[i])
     /\ Done(ops[j]) /\ ops[j].results[1].message = BusyMsg /\ ~ops[j].net

\* C2: when an operation that entered Syncing has returned, isSyncing is
\* false: the flag is never set with no operation in flight.
C2_FlagClearedOnReturn == isSyncing => \E i \in Calls : InFlight(ops[i])

\* an early 'No files to push' return and a failure after entering, both
\* returned, and the engine idle
C2_Witness ==
  /\ ~isSyncing
  /\ \E i, j \in Calls :
       /\ Done(ops[i]) /\ Entered(ops[i])
       /\ ops[i].results[1].message = "No files to push"
       /\ Done(ops[j]) /\ Entered(ops[j])
       /\ ~ops[j].results[1].success

\* C3: an invocation on an engine that is not configured returns the 'GitHub
\* not configured' failure at once, leaves isSyncing as it was, issues no
\* request and writes nothing.
C3_NotConfigured ==
  [][\A i \in Calls :
       (Invoked(i) /\ api = Null) =>
          /\ ReturnsWith(i, NotConfiguredMsg)
          /\ isSyncing' = isSyncing
          /\ NoIO(i)]_vars

\* an invocation returned 'GitHub not configured'
C3_Witness ==
  \E i \in Calls :
     /\ Done(ops[i]) /\ ops[i].results[1].message = NotConfiguredMsg
     /\ ~ops[i].net
     /\ api = Null

\* C4: an invocation rejected as busy changes nothing: isSyncing stays true,
\* it issues no I/O, and the operation in flight, the settings, the vault
\* and the remote are as they were.
C4_BusyChangesNothing ==
  [][\A i \in Calls :
       (Invoked(i) /\ ReturnsWith(i, BusyMsg)) =>
          /\ isSyncing /\ isSyncing'
          /\ NoIO(i)
          /\ UNCHANGED <<settings, api, updates>>
          /\ \A j \in Calls \ {i} : ops'[j] = ops[j]]_vars

\* a call was rejected as busy and the operation that was in flight has
\* since completed with success
C4_Witness ==
  \E i, j \in Calls :
     /\ i < j
     /\ Done(ops[j]) /\ ops[j].results[1].message = BusyMsg
     /\ Done(ops[i]) /\ ops[i].results[1].success /\ ops[i].kind = "sync"
     /\ ops[i].down # {}

FailureMessages ==
  {NotConfiguredMsg, BusyMsg, RepoMsg, PushFailedMsg, UploadFailedMsg,
   ApiErrorMsg, TypeErrorMsg, UnknownMsg} \cup {e.message : e \in {x \in VaultErrors : x.isError}}

\* C5: no error leaves push, pull or sync: a call that ended returned a
\* Result, and a Result with success = false carries an error message and
\* reports zero files uploaded, downloaded and deleted.
C5_FailureResults ==
  \A i \in Calls :
     /\ ~ops[i].thrown
     /\ Done(ops[i]) => Len(ops[i].results) = 1
     /\ \A n \in 1..Len(ops[i].results) :
          LET r == ops[i].results[n]
          IN ~r.success =>
               /\ r.message \in FailureMessages
               /\ r.filesUploaded = 0
               /\ r.filesDownloaded = 0
               /\ r.filesDeleted = 0

\* an operation failed after it had written a file to the vault
C5_Witness ==
  \E i \in Calls :
     /\ Done(ops[i]) /\ ~ops[i].results[1].success
     /\ ops[i].down # {}

\* C6: every invocation eventually ends with exactly one Result, and no
\* invocation ever has two.
C6_OneResult ==
  /\ [](\A i \in Calls : Len(ops[i].results) <= 1 /\ ~ops[i].thrown)
  /\ \A i \in Calls :
       (ops[i].pc # "idle") ~> (Done(ops[i]) /\ Len(ops[i].results) = 1)

\* every call has ended with one Result, one of them a sync that uploaded
\* and downloaded
C6_Witness ==
  /\ \A i \in Calls : Done(ops[i]) /\ Len(ops[i].results) = 1
  /\ \E i \in Calls :
       /\ ops[i].kind = "sync" /\ ops[i].results[1].success
       /\ ops[i].results[1].filesUploaded > 0
       /\ ops[i].results[1].filesDownloaded > 0

\* the paths invocation i hands to batchUpload or writes to the vault in
\* this step
Transferred(i) == (ops'[i].up \cup ops'[i].down) \ (ops[i].up \cup ops[i].down)

\* no updateSettings since invocation i began
SettingsUntouched(i) ==
  /\ updates' = ops[i].start[1].updates
  /\ settings' = ops[i].start[1].settings

\* C7 (as stated): a path excluded by a folder-prefix rule or by a
\* filename/suffix rule is never uploaded by push or sync and never
\* downloaded and written locally by pull or sync (here: in operations
\* during which the settings do not change).
C7_Original ==
  [][\A i \in Calls :
       (InFlight(ops[i]) /\ SettingsUntouched(i)) =>
          \A p \in Transferred(i) : ~VaultFileExcluded(settings, p)]_vars

\* sync invocation i returns in this step
SyncReturns(i) == ops[i].kind = "sync" /\ InFlight(ops[i]) /\ Done(ops'[i])

\* C8 (as stated): when a sync returns, every local path present before the
\* call is still present, and every path of the branch's tree before the
\* call is still in the branch's tree (here: for a sync during which the
\* settings do not change).
C8_Original ==
  [][\A i \in Calls :
       (SyncReturns(i) /\ SettingsUntouched(i)) =>
          /\ PresentPaths(ops[i].start[1].vault) \subseteq PresentPaths(vault')
          /\ PresentPaths(ops[i].start[1].tree) \subseteq PresentPaths(HeadTree(remote'))]_vars

\* C9 (as stated): when a sync returns, every file that was in the vault
\* when the call began has the content it had then (here: for a sync during
\* which the settings do not change).
C9_Original ==
  [][\A i \in Calls :
       (SyncReturns(i) /\ SettingsUntouched(i)) =>
          \A p \in PresentPaths(ops[i].start[1].vault) :
             vault'[p] = ops[i].start[1].vault[p]]_vars

\* C10 (as stated): the exclusion rules, the commit-message template and the
\* remote client that the steps of an operation use are those in force when
\* the operation started.
C10_Original ==
  \A i \in Calls :
     InFlight(ops[i]) =>
        ops[i].used[1] = Rules(ops[i].start[1].settings, ops[i].start[1].client)

\* ------------------------------------------------------ batchUpload's steps
BatchPcs == {"bu_head", "bu_tree", "bu_blob", "bu_mktree", "bu_commit", "bu_patch", "bu_post"}
RefUpdatePcs == {"bu_patch", "bu_post"}

InBatch(op) == op.pc \in BatchPcs

\* this step is a step of invocation i
StepOf(i) == ops'[i] # ops[i]

\* invocation i's batchUpload returns in this step / returns ok
BatchReturns(i) == InBatch(ops[i]) /\ ~InBatch(ops'[i])
BatchReturned(i, ok) == BatchReturns(i) /\ ops'[i].batchOk = Some(ok)

\* getLatestCommitSha answered null although the branch had a head
HeadLookupFailed(op) ==
  /\ op.pc \in BatchPcs \ {"bu_head"}
  /\ op.commitSha = Null
  /\ op.buHead[1] # Null

\* the paths of the files handed to batchUpload
UploadedPaths(op) == {op.filesToUpload[n].path : n \in 1..Len(op.filesToUpload)}

\* C11 (as stated): in batchUpload only the ref update changes the branch;
\* when batchUpload returns false the branch head is what it was before the
\* call; and when a step before the ref update has failed (here: the head
\* lookup) or the ref update itself fails, batchUpload returns false and the
\* branch head and its tree are what they were before the call.
C11_Original ==
  [][\A i \in Calls :
       /\ (StepOf(i) /\ InBatch(ops[i]) /\ ops[i].pc \notin RefUpdatePcs) =>
             remote' = remote
       /\ BatchReturned(i, FALSE) =>
             /\ remote' = remote
             /\ remote.head = ops[i].buHead[1]
       /\ (StepOf(i) /\ ops[i].pc = "bu_post" /\ remote' = remote) =>
             BatchReturned(i, FALSE)
       /\ (BatchReturns(i) /\ HeadLookupFailed(ops[i])) =>
             /\ BatchReturned(i, FALSE)
             /\ remote' = remote]_vars

\* C12 (as stated): when a batchUpload on a branch that had history returns
\* true, every path of the previous head tree that is not among the
\* uploaded files is in the new head tree with the content it had, whatever
\* the head and tree lookups answered.
C12_Original ==
  [][\A i \in Calls :
       (BatchReturned(i, TRUE) /\ ops[i].buHead[1] # Null) =>
          \A p \in Paths \ UploadedPaths(ops[i]) :
             HeadTree(remote')[p] = ops[i].buHead[1][1].tree[p]]_vars

\* C13 (as stated): batchUpload called with an empty file list returns true,
\* whatever its requests answer; batchUpload returns false only when the
\* file list is not empty.
C13_Original ==
  [][\A i \in Calls :
       (ops[i].kind = "batchUpload" /\ BatchReturns(i)) =>
          /\ Len(ops[i].filesToUpload) = 0 => BatchReturned(i, TRUE)
          /\ BatchReturned(i, FALSE) => Len(ops[i].filesToUpload) > 0]_vars

\* invocation i, of kind k, takes a step of its download loop
DownloadStep(i, k) == ops[i].kind = k /\ ops[i].pc = "download" /\ StepOf(i)

\* C14 (as stated): in pull, a file whose content cannot be fetched or whose
\* local write fails is not transferred and the loop goes on: no step of
\* the download loop ends the pull with a failure (here: for a pull during
\* which the settings do not change).
C14_Original ==
  [][\A i \in Calls :
       (DownloadStep(i, "pull") /\ SettingsUntouched(i) /\ Done(ops'[i])) =>
          ops'[i].results[1].success]_vars

\* invocation i, of kind k, returns in this step
Returns(i, k) == ops[i].kind = k /\ InFlight(ops[i]) /\ Done(ops'[i])

\* the files that pass getVaultFiles' filter under settings s
Eligible(s, v) == {p \in PresentPaths(v) : ~VaultFileExcluded(s, p)}

\* C15: a push that found n > 0 eligible files returns success exactly when
\* its batchUpload returned true; it then reports filesUploaded = n and
\* filesDownloaded = 0, the branch head is the one commit this push
\* created, its tree holds the n files with their content, and a
\* repository that did not exist was created as private.  Otherwise the
\* push returns a failure.
C15_PushResult ==
  [][\A i \in Calls :
       (Returns(i, "push") /\ Len(ops[i].vaultFiles) > 0) =>
          LET op == ops[i]
              r == ops'[i].results[1]
              n == Len(op.vaultFiles)
          IN /\ Len(ops'[i].results) = 1
             /\ r.success <=> ops'[i].batchOk = Some(TRUE)
             /\ SettingsUntouched(i) =>
                   Range(op.vaultFiles) = Eligible(op.start[1].settings, op.start[1].vault)
             /\ r.success =>
                   /\ r.filesUploaded = n
                   /\ r.filesDownloaded = 0
                   /\ r.filesDeleted = 0
                   /\ ops'[i].batches = 1
                   /\ op.newCommitSha # Null
                   /\ remote'.head = op.newCommitSha
                   /\ \A k \in 1..n :
                        HeadTree(remote')[op.vaultFiles[k]] = vault[op.vaultFiles[k]]
                   /\ op.start[1].repo = "absent" =>
                        /\ remote'.repo = "private"
                        /\ "POST /user/repos" \in ops'[i].requests]_vars

\* a push of two files has created the repository as private and put one
\* commit with both files on the branch
C15_Witness ==
  \E i \in Calls :
     /\ Done(ops[i]) /\ ops[i].kind = "push"
     /\ ops[i].results[1].success
     /\ ops[i].results[1].filesUploaded = 2
     /\ "POST /user/repos" \in ops[i].requests
     /\ remote.repo = "private"
     /\ remote.head # Null
     /\ HeadTree(remote)[NotePath] = vault[NotePath]
     /\ HeadTree(remote)[DsPath] = vault[DsPath]
     /\ Len(remote.head[1].parents) = 1

\* the remote paths a pull under settings s is to fetch from tree t
PullWanted(s, t) == {p \in PresentPaths(t) : ~PullShouldSkip(s, p)}

\* C16 (as stated): when a pull returns success, every path of the branch's
\* tree that is not excluded and whose content could be fetched is in the
\* vault with the remote's content, whether or not a local file was there,
\* and filesDownloaded is the number of paths written (here: for a pull
\* during which the settings do not change).
C16_Original ==
  [][\A i \in Calls :
       (Returns(i, "pull") /\ SettingsUntouched(i) /\ ops'[i].results[1].success) =>
          LET tree == HeadTree(remote)
              wanted == PullWanted(settings, tree)
          IN /\ \A p \in wanted \ ops'[i].unread :
                  vault'[NormalizePath(p)] = tree[p]
             /\ ops'[i].down = {NormalizePath(p) : p \in wanted \ ops'[i].unread}
             /\ ops'[i].results[1].filesDownloaded = Cardinality(ops'[i].down)]_vars

EnsurePcs == {"ensure_get", "ensure_create"}

\* invocation i's ensureRepository returns in this step
EnsureReturns(i) ==
  /\ StepOf(i)
  /\ ops[i].pc \in EnsurePcs
  /\ ops'[i].pc \notin EnsurePcs

\* the requests that write a blob, a tree, a commit or a ref
GitWrites ==
  {"POST /git/blobs", "POST /git/trees", "POST /git/commits",
   "PATCH /git/refs/heads/{branch}", "POST /git/refs"}

\* push i reaches getVaultFiles in this step and no file passes the filter
PushOfNothing(i) ==
  /\ ops[i].kind = "push"
  /\ EnsureReturns(i)
  /\ Eligible(settings, vault) = {}

\* invocation i has ended in this step with one Result, all counters zero,
\* no batchUpload call and no blob, tree, commit or ref write
EndsWithoutBatch(i) ==
  /\ Done(ops'[i])
  /\ Len(ops'[i].results) = 1
  /\ ops'[i].results[1].filesUploaded = 0
  /\ ops'[i].results[1].filesDownloaded = 0
  /\ ops'[i].results[1].filesDeleted = 0
  /\ ops'[i].batches = 0
  /\ ops'[i].requests \cap GitWrites = {}
  /\ remote'.head = remote.head \/ remote.repo = "absent"

\* C17 (as stated): a push of a vault with zero eligible files returns
\* success with all counters zero, never calls batchUpload and issues no
\* blob, tree, commit or ref write.
C17_Original ==
  [][\A i \in Calls :
       PushOfNothing(i) =>
          /\ EndsWithoutBatch(i)
          /\ ops'[i].results[1].success]_vars

\* C17 (amended): a push of a vault with zero eligible files never calls
\* batchUpload, issues no blob, tree, commit or ref write and reports all
\* counters zero; it returns success when ensureRepository returned true,
\* and the 'Could not access or create repository' failure when the
\* repository check and the creation both failed.
C17_EmptyPush ==
  [][\A i \in Calls :
       PushOfNothing(i) =>
          LET r == ops'[i].results[1]
              created == "POST /user/repos" \in ops'[i].requests /\ remote' # remote
              found == "POST /user/repos" \notin ops'[i].requests
          IN /\ EndsWithoutBatch(i)
             /\ r.success <=> (found \/ created)
             /\ r.success => r.message = "No files to push"
             /\ ~r.success => r.message = RepoMsg /\ remote' = remote]_vars

\* two pushes of a vault whose only file is excluded: the first failed on
\* the repository, the second created it and returned 'No files to push'
C17_Witness ==
  \E i, j \in Calls :
     /\ PresentPaths(vault) # {}
     /\ Eligible(settings, vault) = {}
     /\ Done(ops[i]) /\ ops[i].kind = "push"
     /\ ops[i].results[1].message = RepoMsg
     /\ Done(ops[j]) /\ ops[j].kind = "push"
     /\ ops[j].results[1].message = "No files to push"
     /\ ops[j].batches = 0
     /\ "POST /user/repos" \in ops[j].requests

\* C18: when the repository existence check has failed and the creation
\* fails too, the push or sync returns the 'Could not access or create
\* repository' failure at once: it has called no batchUpload, listed no
\* remote tree, fetched no content and written no local file, and its only
\* requests are the existence check and the creation.
C18_RepoFailureAborts ==
  [][\A i \in Calls :
       (StepOf(i) /\ ops[i].pc = "ensure_create" /\ remote' = remote) =>
          /\ ops[i].kind \in {"push", "sync"}
          /\ ReturnsWith(i, RepoMsg)
          /\ ops'[i].results[1].filesUploaded = 0
          /\ ops'[i].results[1].filesDownloaded = 0
          /\ ops'[i].batches = 0
          /\ ops'[i].up = {} /\ ops'[i].down = {} /\ ops'[i].unread = {}
          /\ ops'[i].requests = {"GET /repos/{owner}/{repo}", "POST /user/repos"}
          /\ vault' = vault]_vars

\* a sync of a vault with files, on a repository with files, has returned
\* the repository failure
C18_Witness ==
  \E i \in Calls :
     /\ Done(ops[i]) /\ ops[i].kind = "sync"
     /\ ops[i].results[1].message = RepoMsg
     /\ ops[i].requests = {"GET /repos/{owner}/{repo}", "POST /user/repos"}
     /\ Eligible(settings, vault) # {}
     /\ PresentPaths(HeadTree(remote)) # {}
     /\ ~isSyncing

\* the timer's callback fires in this step as call i
TickFires(i) == ops[i].pc = "idle" /\ ops'[i].kind \in {"tick", "sync"}

\* C19: a tick that fires while the engine is busy calls nothing and
\* changes nothing (no sync is invoked, the operation in flight, the vault
\* and the remote are as they were), and nothing runs later because of it;
\* a tick that fires while the engine is idle makes exactly one call of
\* sync.
C19_TickSkipsWhenBusy ==
  [][\A i \in Calls :
       /\ (TickFires(i) /\ isSyncing) =>
             /\ ops'[i] = SkippedTick
             /\ \A j \in Calls \ {i} : ops'[j] = ops[j]
             /\ UNCHANGED <<settings, api, isSyncing, vault, remote, updates>>
       /\ (TickFires(i) /\ ~isSyncing) =>
             /\ ops'[i].kind = "sync"
             /\ InFlight(ops'[i]) \/ Len(ops'[i].results) = 1
             /\ InFlight(ops'[i]) => isSyncing'
             /\ \A j \in Calls \ {i} : ops'[j] = ops[j]
       /\ ops[i].kind = "tick" => ops'[i] = SkippedTick]_vars

\* a tick was skipped during a push, and the push has since succeeded
C19_Witness ==
  \E i, j \in Calls :
     /\ i < j
     /\ ops[j] = SkippedTick
     /\ Done(ops[i]) /\ ops[i].kind = "push" /\ ops[i].results[1].success
     /\ ops[i].batches = 1
     /\ ~isSyncing

\* C20: a deleteFile whose getFileSha finds no content id returns true at
\* once: its only request is the lookup, no DELETE is issued and the remote
\* is unchanged; and no content id is ever found for a path that is absent
\* from the branch, so deleteFile on an absent path always returns true.
C20_DeleteAbsent ==
  [][\A i \in Calls :
       (StepOf(i) /\ ops[i].pc = "df_sha") =>
          /\ HeadTree(remote)[ops[i].path[1]] = Absent => ops'[i].pc # "df_delete"
          /\ ops'[i].pc # "df_delete" =>
                /\ Done(ops'[i])
                /\ ops'[i].results = <<TRUE>>
                /\ ops'[i].requests = {"GET /contents/{path}"}
                /\ remote' = remote]_vars

\* a file was deleted from the branch, leaving its tree empty, and a second
\* deleteFile, on a path then absent, returned true with the lookup as its
\* only request
C20_Witness ==
  \E i, j \in Calls :
     /\ i < j
     /\ ops[i].kind = "deleteFile" /\ Done(ops[i])
     /\ ops[i].results = <<TRUE>>
     /\ "DELETE /contents/{path}" \in ops[i].requests
     /\ ops[j].kind = "deleteFile" /\ Done(ops[j])
     /\ ops[j].results = <<TRUE>>
     /\ ops[j].requests = {"GET /contents/{path}"}
     /\ remote.head # Null
     /\ PresentPaths(HeadTree(remote)) = {}

\* the content of a file at path goes through writeFileContent in this step
ContentWritten(i, path) ==
  /\ StepOf(i)
  /\ ops[i].kind = "content"
  /\ ops[i].pc \in {"encoded", "fetched"}
  /\ ops'[i].pc = "done"
  /\ ops[i].path = Some(path)

\* C21: the bytes of a binary file, wrapped by getFileContent and written
\* back by writeFileContent (with or without the remote in between), are
\* the bytes the file had: the binary branch is taken, atob does not throw
\* and the vault receives the same byte sequence, the empty one and those
\* that are not valid text included.
C21_BinaryRoundTrip ==
  [][\A i \in Calls :
       ContentWritten(i, ImagePath) =>
          /\ ops'[i].results = <<"binary">>
          /\ vault'[ImagePath] = ops[i].start[1].vault[ImagePath]
          /\ vault' = vault]_vars

\* a binary file of two bytes that are not valid text has gone through the
\* wrapper, the remote and the binary write
C21_Witness ==
  \E i \in Calls :
     /\ ops[i].kind = "content" /\ Done(ops[i])
     /\ ops[i].results = <<"binary">>
     /\ ops[i].content # Null
     /\ ImagePath \in DOMAIN vault
     /\ vault[ImagePath] = <<255, 0>>

\* C28 (as stated): the content of a text file, read by getFileContent as
\* text, uploaded and fetched again, is written back by writeFileContent as
\* text and with the same content, whatever the text is: the write path
\* never takes the binary branch for a file that was read as text.
C28_Original ==
  [][\A i \in Calls :
       (ContentWritten(i, TextPath) /\ ops[i].pc = "fetched") =>
          /\ ops'[i].results = <<"text">>
          /\ vault'[TextPath] = ops[i].start[1].vault[TextPath]]_vars

\* -------------------------------------------------------- the commit message
Has(s, tok) == \E k \in 1..Len(s) : s[k] = tok

Rendered(i) == ops[i].kind = "message" /\ Done(ops[i])

\* C22 (as stated): for every template that contains the date token, once
\* or more, the message getCommitMessage returns contains no date token
\* and contains the timestamp.
C22_Original ==
  \A i \in Calls :
     (Rendered(i) /\ Has(settings.commitMessage, DateToken)) =>
        /\ ~Has(ops[i].message, DateToken)
        /\ \E k \in 1..Len(ops[i].message) :
              SubSeq(ops[i].message, k, k + Len(DateStr) - 1) = DateStr

\* ----------------------------------------------------------- a race on the ref
\* invocation i's ref update answers in this step, and the branch is not
\* where batchUpload read it
RefUpdateRaced(i) ==
  /\ StepOf(i)
  /\ ops[i].pc \in RefUpdatePcs
  /\ remote.head # ops[i].commitSha

\* C23: when the branch was moved between batchUpload's read of the head
\* and its ref update, a batchUpload that returns true leaves the branch at
\* its own new commit, whose parent is the head it read (none if it read
\* none) and not the commit the branch was moved to.
C23_ForceWins ==
  [][\A i \in Calls :
       (RefUpdateRaced(i) /\ BatchReturned(i, TRUE)) =>
          /\ remote'.head = ops[i].newCommitSha
          /\ remote'.head[1].parents = ops[i].commitSha
          /\ remote'.head[1].parents # remote.head
          /\ remote'.head[1].tree =
                CreateTree(ops[i].baseTreeSha, ops[i].treeItems)]_vars

\* a batchUpload read the head, an external commit was pushed on top of it,
\* and the batchUpload returned true: the branch is at a commit that builds
\* on the head read, and the external commit is lost
C23_Witness ==
  \E i \in Calls :
     /\ ops[i].kind = "batchUpload" /\ Done(ops[i])
     /\ ops[i].batchOk = Some(TRUE)
     /\ ops[i].lost # Null
     /\ ops[i].lost[1] # Null
     /\ ops[i].lost[1][1].message = ExternalMessage
     /\ remote.head # Null
     /\ remote.head[1].message # ExternalMessage
     /\ remote.head[1].parents = ops[i].lost[1][1].parents
     /\ remote.head[1].parents # <<>>

\* ------------------------------------------------- the order of the writes
Answered(req, ok) == [req |-> req, ok |-> ok]

\* entry k of the log w follows what the four steps allow before it
InOrder(w, k) ==
  IF w[k].req \in {"blob", "tree"}
  THEN \A j \in 1..(k - 1) : w[j] = Answered("blob", TRUE)
  ELSE /\ k > 1
       /\ w[k - 1] = (IF w[k].req = "commit" THEN Answered("tree", TRUE)
                      ELSE IF w[k].req = "patch" THEN Answered("commit", TRUE)
                      ELSE Answered("patch", FALSE))

Count(w, req) == Cardinality({k \in 1..Len(w) : w[k].req = req})

\* C24: the write requests of one batchUpload come in the order blobs,
\* tree, commit, ref update; each follows the success of the one before it
\* (the ref creation follows the failed PATCH only), so that nothing is
\* requested after a failure; and a batchUpload of a non-empty list that
\* returned true has requested exactly one tree and one commit, and its
\* last request is a ref update that succeeded.
C24_WriteOrder ==
  \A i \in Calls :
     LET w == ops[i].writes
     IN /\ \A k \in 1..Len(w) : InOrder(w, k)
        /\ (ops[i].batchOk = Some(TRUE) /\ ops[i].up # {}) =>
              /\ Count(w, "tree") = 1
              /\ Count(w, "commit") = 1
              /\ Len(w) > 0
              /\ w[Len(w)] \in {Answered("patch", TRUE), Answered("post", TRUE)}

\* a batchUpload with a large file has gone through all four steps; and
\* one has stopped at a tree request that failed after its blob
C24_Witness ==
  /\ \E i \in Calls :
        /\ ops[i].kind = "batchUpload" /\ Done(ops[i])
        /\ ops[i].writes = <<Answered("blob", TRUE), Answered("tree", TRUE),
                             Answered("commit", TRUE), Answered("patch", TRUE)>>
  /\ \E i \in Calls :
        /\ ops[i].kind = "batchUpload" /\ Done(ops[i])
        /\ ops[i].writes = <<Answered("blob", TRUE), Answered("tree", FALSE)>>

\* ------------------------------------------------------- updateBranchRef
Last(w) == w[Len(w)]

\* C25: when the PATCH of the ref succeeds, updateBranchRef returns true
\* and the branch is at the commit; when it fails, nothing has changed and
\* the ref creation is requested next; the ref creation is requested once,
\* right after the failed PATCH, and updateBranchRef returns true when it
\* succeeds (the branch is then at the commit) and false when it fails (the
\* remote is then unchanged).  No error leaves the call.
C25_RefUpdate ==
  [][\A i \in Calls :
       /\ (StepOf(i) /\ ops[i].pc = "bu_patch") =>
             /\ Last(ops'[i].writes).req = "patch"
             /\ IF Last(ops'[i].writes).ok
                THEN BatchReturned(i, TRUE) /\ remote'.head = ops[i].newCommitSha
                ELSE ops'[i].pc = "bu_post" /\ remote' = remote
       /\ (StepOf(i) /\ ops[i].pc = "bu_post") =>
             /\ Last(ops[i].writes) = Answered("patch", FALSE)
             /\ Last(ops'[i].writes).req = "post"
             /\ Count(ops'[i].writes, "post") = 1
             /\ BatchReturned(i, Last(ops'[i].writes).ok)
             /\ IF Last(ops'[i].writes).ok
                THEN remote'.head = ops[i].newCommitSha
                ELSE remote' = remote
       /\ (StepOf(i) /\ ops[i].pc \in RefUpdatePcs) => ~ops'[i].thrown]_vars

\* one batchUpload created the ref after its PATCH failed and returned
\* true, and another returned false after both requests failed
C25_Witness ==
  /\ \E i \in Calls :
        /\ ops[i].kind = "batchUpload" /\ Done(ops[i])
        /\ ops[i].batchOk = Some(TRUE)
        /\ Len(ops[i].writes) > 1
        /\ SubSeq(ops[i].writes, Len(ops[i].writes) - 1, Len(ops[i].writes))
              = <<Answered("patch", FALSE), Answered("post", TRUE)>>
  /\ \E i \in Calls :
        /\ ops[i].kind = "batchUpload" /\ Done(ops[i])
        /\ ops[i].batchOk = Some(FALSE)
        /\ Len(ops[i].writes) > 1
        /\ SubSeq(ops[i].writes, Len(ops[i].writes) - 1, Len(ops[i].writes))
              = <<Answered("patch", FALSE), Answered("post", FALSE)>>

\* ------------------------------------------------------ the commit's parent
\* C26 (as stated): the commit batchUpload creates has the branch head as
\* its single parent when the branch has history, and no parent (and its
\* tree no base tree) only when the branch has none; and a branch with
\* history does not get a parentless commit as its new head.
C26_Original ==
  [][\A i \in Calls :
       /\ (StepOf(i) /\ ops[i].pc = "bu_commit" /\ ops'[i].pc = "bu_patch") =>
             /\ ops'[i].newCommitSha[1].parents = ops[i].buHead[1]
             /\ (ops[i].baseTreeSha = Null) <=> (ops[i].buHead[1] = Null)
       /\ (StepOf(i) /\ ops[i].pc \in RefUpdatePcs /\ BatchReturned(i, TRUE)
              /\ remote.head # Null) =>
             remote'.head[1].parents # <<>>]_vars

\* ------------------------------------------------ a pull that read nothing
\* invocation i has read the branch's tree listing
TreeRead(op) == Requests("ga_list") \subseteq op.requests

\* C27 (as stated): a pull returns success only if it has read the remote
\* tree or the branch has no history; a pull whose branch-head request
\* failed on a branch with history returns a failure Result with the remote
\* access error.
C27_Original ==
  [][\A i \in Calls :
       Returns(i, "pull") =>
          LET r == ops'[i].results[1]
          IN /\ r.success => (TreeRead(ops'[i]) \/ remote.head = Null)
             /\ (ops[i].pc = "ga_head" /\ remote.head # Null) =>
                   (~r.success /\ r.message = ApiErrorMsg)]_vars

\* ---------------------------------------------------------- the tree entries
\* the tree entry batchUpload must make for file f
EntryFor(item, f) ==
  /\ item.path = f.path
  /\ item.mode = "100644"
  /\ item.type = "blob"
  /\ (item.content # Null) # (item.sha # Null)
  /\ (item.content # Null) <=> (ContentLength(f.content) < 100000)
  /\ (item.sha # Null) <=> (ContentLength(f.content) >= 100000)
  /\ ItemBlob(item) = f.content

\* the number of files that batchUpload's loop has gone through
Looped(op) == IF op.pc = "bu_blob" THEN op.idx - 1 ELSE Len(op.filesToUpload)

\* C29: while batchUpload builds its tree and afterwards, there is exactly
\* one tree entry for each file the loop has gone through, in the files'
\* order, with mode 100644 and either the content inline or a blob's id,
\* never both or neither: inline exactly for a content shorter than
\* 100000, a blob otherwise; and one blob request has been answered for
\* each of those longer contents, none for the others.
C29_TreeEntries ==
  \A i \in Calls :
     ops[i].pc \in BatchPcs \ {"bu_head", "bu_tree"} =>
        LET op == ops[i]
            n == Looped(op)
        IN /\ Len(op.treeItems) = n
           /\ \A k \in 1..n : EntryFor(op.treeItems[k], op.filesToUpload[k])
           /\ Count(op.writes, "blob") =
                 Cardinality({k \in 1..n : ContentLength(op.filesToUpload[k].content) >= 100000})

\* a batchUpload is about to request the tree for three files: one of
\* length 99999 inline, and those of lengths 100001 and 100000 as blobs
C29_Witness ==
  \E i \in Calls :
     /\ ops[i].pc = "bu_mktree"
     /\ Len(ops[i].treeItems) = 3
     /\ ContentLength(ops[i].filesToUpload[1].content) = 99999
     /\ ops[i].treeItems[1].content # Null
     /\ ContentLength(ops[i].filesToUpload[3].content) = 100000
     /\ ops[i].treeItems[3].sha # Null
     /\ ops[i].treeItems[2].sha # Null
     /\ Count(ops[i].writes, "blob") = 2

\* ------------------------------------------------------------- the counters
\* invocation i returns in this step, early or not
Ends(i) == ops[i].pc # "done" /\ ops'[i].pc = "done" /\ ops'[i].kind \in Kinds

====
